---------------------------- MODULE Spec2Model ----------------------------
(***************************************************************************)
(* The calorie-expenditure notebooks as a state machine.                   *)
(*                                                                         *)
(* Each notebook is a stage that runs in a fresh kernel: its variables     *)
(* (mem) start empty and the only thing that survives from one stage to    *)
(* the next is the filesystem (fs).  One action models one code cell.      *)
(*                                                                         *)
(* Numbers.  Raw columns hold small integers.  Values on the log scale and *)
(* values produced by expm1 are fixed-point with LScale units per 1.0;     *)
(* quotient features are fixed-point with FScale units per 1.0; blended    *)
(* values are float64, held as an odd integer times a power of two.        *)
(***************************************************************************)
EXTENDS Integers, Sequences, FiniteSets, TLC

VARIABLES
    fs,        \* the filesystem: path -> file
    pc,        \* the cell that runs next
    mem,       \* the variables of the running notebook's kernel
    log,       \* history: file reads/writes and target transforms, in order
    perm,      \* the order RandomState(42) shuffles the row indices into
    foldMsle,  \* MSLE a clone of each model attains on each held-out fold
    cv,        \* history: the frame of the last rmsle_cv call
    rt         \* a single value taken through log1p and expm1

vars == <<fs, pc, mem, log, perm, foldMsle, cv, rt>>

-----------------------------------------------------------------------------
(* Bounds of the model *)

MaxTrainVar == 2   \* leading training rows that are chosen freely
MaxTest == 3       \* rows of the raw test set
MaxBlendRows == 2  \* rows of a prediction file given to the blend
MaxCal == 40       \* largest calorie value taken through the round trip
MaxCVRows == 6     \* training rows when the shuffle and the scores vary
MaxHeldOut == 2    \* rows of a held-out fold whose scoring is followed

(* Fixed-point scales *)
LScale == 10000
FScale == 100

-----------------------------------------------------------------------------
(* Sequences and small helpers *)

Range(s) == {s[i] : i \in DOMAIN s}

Abs(a) == IF a >= 0 THEN a ELSE 0 - a

RECURSIVE SumSeq(_)
SumSeq(s) == IF s = <<>> THEN 0 ELSE Head(s) + SumSeq(Tail(s))

SeqsUpTo(S, lo, hi) == UNION {[1..n -> S] : n \in lo..hi}

Perms(n) == {p \in [1..n -> 1..n] : \A i, j \in 1..n : p[i] = p[j] => i = j}

Bind(m, k, v) == [x \in (DOMAIN m) \cup {k} |-> IF x = k THEN v ELSE m[x]]

FreshKernel == [x \in {} |-> 0]

-----------------------------------------------------------------------------
(* Data frames and CSV files *)

\* A data frame: the ordered column names and the rows, each row a function
\* from column name to value.  The index is always the default RangeIndex,
\* so a row's label is its position.
Frame(cols, rows) == [cols |-> cols, rows |-> rows]

NRows(df) == Len(df.rows)

Column(df, c) == [i \in 1..NRows(df) |-> df.rows[i][c]]

HasCol(df, c) == c \in Range(df.cols)

\* df.drop(columns=[c])
DropCol(df, c) ==
    Frame(SelectSeq(df.cols, LAMBDA x : x # c),
          [i \in 1..NRows(df) |->
              [k \in (DOMAIN df.rows[i]) \ {c} |-> df.rows[i][k]]])

\* df[c] = values   (a new column goes last, an existing one is overwritten)
SetCol(df, c, values) ==
    Frame(IF HasCol(df, c) THEN df.cols ELSE Append(df.cols, c),
          [i \in 1..NRows(df) |-> Bind(df.rows[i], c, values[i])])

\* A file: a header line and one positional line of cells per row.
Absent == [present |-> FALSE, header |-> <<>>, lines |-> <<>>]

\* df.to_csv(path, index=False): the index is not written.
ToCsv(df) ==
    [present |-> TRUE,
     header  |-> df.cols,
     lines   |-> [i \in 1..NRows(df) |->
                    [j \in 1..Len(df.cols) |-> df.rows[i][df.cols[j]]]]]

\* pd.read_csv(path): cells are named by the header, rows get a RangeIndex.
ReadCsv(f) ==
    Frame(f.header,
          [i \in 1..Len(f.lines) |->
              [c \in Range(f.header) |->
                  f.lines[i][CHOOSE j \in 1..Len(f.header) : f.header[j] = c]]])

-----------------------------------------------------------------------------
(* Paths *)

RawTrainPath == "datasets/train.csv"
RawTestPath == "datasets/test.csv"
TrainPrePath == "datasets/train_preprocessed.csv"
TestPrePath == "datasets/test_preprocessed.csv"
TestIdsPath == "datasets/test_ids.csv"
TrainFePath == "datasets/train_fe.csv"
TestFePath == "datasets/test_fe.csv"
SubmissionPath == "submission_xgb.csv"
XgbFile == "datasets/submissions/submission_xgb_fe_v2_FIXED.csv"
LgbFile == "datasets/submissions/submission_lgbm_optuna_may21_FIXED.csv"
BlendOutPath == "datasets/submissions/submission_blended_xgb70_lgb30_may21.csv"

RawInputs == {RawTrainPath, RawTestPath}

Paths == {RawTrainPath, RawTestPath, TrainPrePath, TestPrePath, TestIdsPath,
          TrainFePath, TestFePath, SubmissionPath, XgbFile, LgbFile, BlendOutPath}

ReadEvent(stage, path) == [stage |-> stage, op |-> "read", path |-> path]
WriteEvent(stage, path) == [stage |-> stage, op |-> "write", path |-> path]
TransformEvent(stage, what) == [stage |-> stage, op |-> what, path |-> ""]

-----------------------------------------------------------------------------
(* log1p and expm1 in fixed point *)

\* a / b rounded to the nearest integer, a >= 0, b > 0
RoundDiv(a, b) == (2 * a + b) \div (2 * b)

\* the product of two fixed-point values a, b >= 0, kept within 32 bits
MulFix(a, b) == a * (b \div LScale) + (a * (b % LScale)) \div LScale

\* sum over k of z^(2k+1) / (2k+1), p being z^(2k+1)
RECURSIVE AtanhTerms(_, _, _)
AtanhTerms(p, k, z2) ==
    IF p = 0 THEN 0
    ELSE RoundDiv(p, 2 * k + 1) + AtanhTerms(MulFix(p, z2), k + 1, z2)

\* np.log1p(c) for a calorie value c >= 0:  ln(1+c) = 2 atanh(c / (c+2))
Log1pFix(c) ==
    LET z == RoundDiv(c * LScale, c + 2)
    IN  2 * AtanhTerms(z, 0, MulFix(z, z))

\* sum over n of v^n / n!, t being v^n / n!
RECURSIVE ExpTerms(_, _, _)
ExpTerms(t, n, v) ==
    IF t = 0 THEN 0
    ELSE t + ExpTerms(RoundDiv(MulFix(t, v), n + 1), n + 1, v)

\* a slip: exp in place of expm1
Expm1Fix_Exp(v) == ExpTerms(v, 1, v) + LScale

\* np.expm1(v) for a log-scale value v >= 0
Expm1Fix(v) == ExpTerms(v, 1, v)

-----------------------------------------------------------------------------
(* Raw inputs *)

NSplits == 5

SexOrder == <<"female", "male", "other">>   \* in lexicographic order

RawTrainCols == <<"id", "Sex", "Age", "Height", "Weight", "Duration",
                  "Heart_Rate", "Body_Temp", "Calories">>
RawTestCols == <<"id", "Sex", "Age", "Height", "Weight", "Duration",
                 "Heart_Rate", "Body_Temp">>

\* The kinds of session a raw row can hold: a usual one, one of no duration
\* and one with no height recorded.
Templates ==
    { [Sex |-> "female", Age |-> 30, Height |-> 160, Weight |-> 60,
       Duration |-> 10, Heart_Rate |-> 100, Body_Temp |-> 40, Calories |-> 3],
      [Sex |-> "male", Age |-> 40, Height |-> 180, Weight |-> 80,
       Duration |-> 0, Heart_Rate |-> 90, Body_Temp |-> 39, Calories |-> 12],
      [Sex |-> "other", Age |-> 50, Height |-> 0, Weight |-> 70,
       Duration |-> 20, Heart_Rate |-> 110, Body_Temp |-> 41, Calories |-> 3] }

TestIdOf(t) == CASE t.Sex = "female" -> 7 [] t.Sex = "male" -> 3 [] OTHER -> 5

\* train.csv: ids count the rows from 0
TrainRow(t, i) == [c \in Range(RawTrainCols) |-> IF c = "id" THEN i - 1 ELSE t[c]]

\* test.csv: ids come in no particular order and may repeat
TestRow(t) == [c \in Range(RawTestCols) |-> IF c = "id" THEN TestIdOf(t) ELSE t[c]]

\* n training rows: a freely chosen start, the last chosen row repeated
PadTo(ts, n) == [i \in 1..n |-> IF i <= Len(ts) THEN ts[i] ELSE ts[Len(ts)]]

\* one row too few for KFold, and enough rows
TrainLens == {NSplits - 1, NSplits}

RawTrainSets ==
    { Frame(RawTrainCols, [i \in 1..n |-> TrainRow(PadTo(ts, n)[i], i)]) :
        ts \in SeqsUpTo(Templates, 1, MaxTrainVar), n \in TrainLens }

RawTestSets ==
    { Frame(RawTestCols, [i \in 1..Len(ts) |-> TestRow(ts[i])]) :
        ts \in SeqsUpTo(Templates, 1, MaxTest) }

-----------------------------------------------------------------------------
(* Preprocessing: preprocessing_step2.ipynb *)

DummyName(s) ==
    CASE s = "female" -> "Sex_female" [] s = "male" -> "Sex_male" [] OTHER -> "Sex_other"

\* the categories of Sex found in df, sorted
Categories(df) == SelectSeq(SexOrder, LAMBDA s : \E i \in 1..NRows(df) : df.rows[i]["Sex"] = s)

\* a slip: drop_first left out
KeptCategories_All(df) == Categories(df)

\* drop_first=True: the first category gets no column
KeptCategories(df) == IF Categories(df) = <<>> THEN <<>> ELSE Tail(Categories(df))

\* pd.get_dummies(df, columns=['Sex'], drop_first=True): Sex is removed and one
\* indicator column per kept category is appended.  The indicator is a bool,
\* which is the integer 1 or 0.
GetDummies(df) ==
    LET kept == KeptCategories(df)
        names == [j \in 1..Len(kept) |-> DummyName(kept[j])]
        rest == DropCol(df, "Sex")
    IN  Frame(rest.cols \o names,
              [i \in 1..NRows(df) |->
                  [c \in Range(rest.cols) \cup Range(names) |->
                      IF c \in Range(rest.cols) THEN rest.rows[i][c]
                      ELSE IF \E j \in 1..Len(kept) :
                                 names[j] = c /\ df.rows[i]["Sex"] = kept[j]
                           THEN 1 ELSE 0]])

\* a slip: a feature column is logged along with the target
LogTarget_AlsoDuration(df) ==
    SetCol(SetCol(df, "Calories", [i \in 1..NRows(df) |-> Log1pFix(df.rows[i]["Calories"])]),
           "Duration", [i \in 1..NRows(df) |-> Log1pFix(df.rows[i]["Duration"])])

\* df['Calories'] = np.log1p(df['Calories'])
LogTarget(df) ==
    SetCol(df, "Calories", [i \in 1..NRows(df) |-> Log1pFix(df.rows[i]["Calories"])])

\* cell 1: load the raw files and keep the test ids
PP_Load ==
    /\ pc = "pp_load"
    /\ mem' = [train |-> ReadCsv(fs[RawTrainPath]),
               test |-> ReadCsv(fs[RawTestPath]),
               test_ids |-> Column(ReadCsv(fs[RawTestPath]), "id")]
    /\ log' = log \o <<ReadEvent("preprocessing", RawTrainPath),
                       ReadEvent("preprocessing", RawTestPath)>>
    /\ pc' = "pp_drop"
    /\ UNCHANGED <<fs, perm, foldMsle, cv, rt>>

\* cell 2: drop id
PP_DropId ==
    /\ pc = "pp_drop"
    /\ mem' = [mem EXCEPT !.train = DropCol(@, "id"), !.test = DropCol(@, "id")]
    /\ pc' = "pp_dummies"
    /\ UNCHANGED <<fs, log, perm, foldMsle, cv, rt>>

\* cell 3: one-hot encode Sex, train and test each on its own
PP_Dummies ==
    /\ pc = "pp_dummies"
    /\ mem' = [mem EXCEPT !.train = GetDummies(@), !.test = GetDummies(@)]
    /\ pc' = "pp_log"
    /\ UNCHANGED <<fs, log, perm, foldMsle, cv, rt>>

\* cell 4: log-transform the target
PP_Log ==
    /\ pc = "pp_log"
    /\ mem' = [mem EXCEPT !.train = LogTarget(@)]
    /\ log' = Append(log, TransformEvent("preprocessing", "log1p"))
    /\ pc' = "pp_save"
    /\ UNCHANGED <<fs, perm, foldMsle, cv, rt>>

\* a slip: the ids saved are the row labels left after the id column is dropped
PP_Outputs_RowLabels(m) ==
    << [path |-> TrainPrePath, file |-> ToCsv(m.train)],
       [path |-> TestPrePath, file |-> ToCsv(m.test)],
       [path |-> TestIdsPath,
        file |-> ToCsv(Frame(<<"id">>,
                   [i \in 1..Len(m.test_ids) |-> [c \in {"id"} |-> i - 1]]))] >>

\* a slip: the test ids are not saved
PP_Outputs_NoIds(m) ==
    << [path |-> TrainPrePath, file |-> ToCsv(m.train)],
       [path |-> TestPrePath, file |-> ToCsv(m.test)] >>

\* the three files the last cell writes, in order
PP_Outputs(m) ==
    << [path |-> TrainPrePath, file |-> ToCsv(m.train)],
       [path |-> TestPrePath, file |-> ToCsv(m.test)],
       [path |-> TestIdsPath,
        file |-> ToCsv(Frame(<<"id">>,
                   [i \in 1..Len(m.test_ids) |-> [c \in {"id"} |-> m.test_ids[i]]]))] >>

\* the filesystem after the files of outs are written
WriteAll(files, outs) ==
    [p \in Paths |->
        IF \E k \in 1..Len(outs) : outs[k].path = p
        THEN outs[CHOOSE k \in 1..Len(outs) : outs[k].path = p].file
        ELSE files[p]]

WriteEvents(stage, outs) == [k \in 1..Len(outs) |-> WriteEvent(stage, outs[k].path)]

\* cell 6: save the preprocessed files and the test ids
PP_Save ==
    /\ pc = "pp_save"
    /\ fs' = WriteAll(fs, PP_Outputs(mem))
    /\ log' = log \o WriteEvents("preprocessing", PP_Outputs(mem))
    /\ pc' = "fe_load"
    /\ UNCHANGED <<mem, perm, foldMsle, cv, rt>>

-----------------------------------------------------------------------------
(* Feature engineering: feature_engineering_step2b.ipynb *)

\* what float64 division yields when the divisor is zero
InfVal == 999999999
NaNVal == -999999999

\* a / b on float64 columns, the result in FScale units; a, b >= 0
FloatDiv(a, b) ==
    IF b = 0 THEN (IF a = 0 THEN NaNVal ELSE InfVal) ELSE RoundDiv(a * FScale, b)

\* Weight / ((Height / 100) ** 2)
BMI(r) == FloatDiv(r["Weight"] * 10000, r["Height"] * r["Height"])

\* a slip: the quotient the wrong way up
Intensity_Inverted(r) == FloatDiv(r["Duration"], r["Heart_Rate"])

\* Heart_Rate / Duration
Intensity(r) == FloatDiv(r["Heart_Rate"], r["Duration"])

\* Body_Temp * Heart_Rate
TempHeart(r) == r["Body_Temp"] * r["Heart_Rate"]

\* Duration ** 2
Duration2(r) == r["Duration"] * r["Duration"]

FeatureValue(c, r) ==
    CASE c = "BMI" -> BMI(r)
      [] c = "Intensity" -> Intensity(r)
      [] c = "TempHeart" -> TempHeart(r)
      [] c = "Duration2" -> Duration2(r)

\* a slip: every row is given the value of the first row
AddFeature_FromFirstRow(df, c) ==
    SetCol(df, c, [i \in 1..NRows(df) |-> FeatureValue(c, df.rows[1])])

AddFeature(df, c) == SetCol(df, c, [i \in 1..NRows(df) |-> FeatureValue(c, df.rows[i])])

\* df.isnull().sum()
MissingCount(df) ==
    [c \in Range(df.cols) |-> Cardinality({i \in 1..NRows(df) : df.rows[i][c] = NaNVal})]

AllPresent(ps) == \A p \in ps : fs[p].present

\* a cell that stops with an exception: the notebook run ends there
Crash == /\ pc' = "crashed"
         /\ UNCHANGED <<fs, mem, perm, foldMsle, cv, rt>>

\* cell 1: load the preprocessed files into a fresh kernel
FE_Load ==
    /\ pc = "fe_load"
    /\ log' = log \o <<ReadEvent("feature_engineering", TrainPrePath),
                       ReadEvent("feature_engineering", TestPrePath)>>
    /\ IF AllPresent({TrainPrePath, TestPrePath})
       THEN /\ mem' = [train |-> ReadCsv(fs[TrainPrePath]),
                       test |-> ReadCsv(fs[TestPrePath])]
            /\ pc' = "fe_bmi"
            /\ UNCHANGED <<fs, perm, foldMsle, cv, rt>>
       ELSE Crash

FE_Step(at, c, then) ==
    /\ pc = at
    /\ mem' = [mem EXCEPT !.train = AddFeature(@, c), !.test = AddFeature(@, c)]
    /\ pc' = then
    /\ UNCHANGED <<fs, log, perm, foldMsle, cv, rt>>

FE_BMI == FE_Step("fe_bmi", "BMI", "fe_intensity")

FE_Intensity == FE_Step("fe_intensity", "Intensity", "fe_tempheart")

FE_TempHeart == FE_Step("fe_tempheart", "TempHeart", "fe_duration2")

FE_Duration2 == FE_Step("fe_duration2", "Duration2", "fe_save")

\* save train_fe.csv and test_fe.csv
FE_Save ==
    /\ pc = "fe_save"
    /\ fs' = [fs EXCEPT ![TrainFePath] = ToCsv(mem.train), ![TestFePath] = ToCsv(mem.test)]
    /\ log' = log \o <<WriteEvent("feature_engineering", TrainFePath),
                       WriteEvent("feature_engineering", TestFePath)>>
    /\ pc' = "fe_verify"
    /\ UNCHANGED <<mem, perm, foldMsle, cv, rt>>

\* read the saved files back and count the missing values
FE_Verify ==
    /\ pc = "fe_verify"
    /\ log' = log \o <<ReadEvent("feature_engineering", TrainFePath),
                       ReadEvent("feature_engineering", TestFePath)>>
    /\ IF AllPresent({TrainFePath, TestFePath})
       THEN /\ mem' = [train |-> mem.train, test |-> mem.test,
                       train_fe |-> ReadCsv(fs[TrainFePath]),
                       test_fe |-> ReadCsv(fs[TestFePath]),
                       missing_train |-> MissingCount(ReadCsv(fs[TrainFePath])),
                       missing_test |-> MissingCount(ReadCsv(fs[TestFePath]))]
            /\ pc' = "bl_load"
            /\ UNCHANGED <<fs, perm, foldMsle, cv, rt>>
       ELSE Crash

-----------------------------------------------------------------------------
(* Baseline modelling: baseline_modelling_step3.ipynb *)

ModelNames == <<"lr", "rf", "xgb", "lgb">>

\* KFold(n_splits=5, shuffle=True, random_state=42).split on n rows: the
\* shuffled indices p are cut into n_splits consecutive folds, the first
\* n % n_splits of them one row longer.
FoldSize(n, f) == (n \div NSplits) + (IF f <= n % NSplits THEN 1 ELSE 0)

FoldStart(n, f) == (f - 1) * (n \div NSplits) + (IF f - 1 <= n % NSplits THEN f - 1 ELSE n % NSplits)

TestIdx(n, p, f) == {p[i] : i \in (FoldStart(n, f) + 1)..(FoldStart(n, f) + FoldSize(n, f))}

\* a slip: the clone is fitted on every row, the held-out ones too
TrainIdx_AllRows(n, p, f) == 1..n

TrainIdx(n, p, f) == (1..n) \ TestIdx(n, p, f)

\* cross_val_score(model, X, y, scoring='neg_mean_squared_log_error', cv=kf):
\* per fold a clone of the model is fitted on the training indices and scored
\* on the test indices; the score is the negated MSLE.
CrossValScore(m, n, p, msle) ==
    [f \in 1..NSplits |->
        [fit |-> TrainIdx(n, p, f), scored |-> TestIdx(n, p, f), score |-> 0 - msle[m][f]]]

\* -scores
Negate(s) == [i \in 1..Len(s) |-> 0 - s[i]]

\* scores.mean()
Mean(s) == SumSeq(s) \div Len(s)

\* np.sqrt: nan for a negative argument
Sqrt(x) == IF x < 0 THEN NaNVal ELSE CHOOSE r \in 0..x : r * r <= x /\ (r + 1) * (r + 1) > x

\* a slip: the root taken per fold, the roots averaged
RmsleCv_MeanOfRoots(m, n, p, msle) ==
    LET folds == CrossValScore(m, n, p, msle)
        rmsle_scores == Negate([f \in 1..NSplits |-> folds[f].score])
    IN  [model |-> m, n |-> n, folds |-> folds, rmsle_scores |-> rmsle_scores,
         ret |-> Mean([f \in 1..NSplits |-> Sqrt(rmsle_scores[f])])]

\* the frame of rmsle_cv(model, X, y) when it returns
RmsleCv(m, n, p, msle) ==
    LET folds == CrossValScore(m, n, p, msle)
        rmsle_scores == Negate([f \in 1..NSplits |-> folds[f].score])
    IN  [model |-> m, n |-> n, folds |-> folds, rmsle_scores |-> rmsle_scores,
         ret |-> Sqrt(Mean(rmsle_scores))]

NoCall == [model |-> "none", n |-> 0, folds |-> <<>>, rmsle_scores |-> <<>>, ret |-> 0,
           calls |-> <<>>]

\* history: the frame of a call, with the held-out sets of every call so far
AfterCall(prev, frame) ==
    [model |-> frame.model, n |-> frame.n, folds |-> frame.folds,
     rmsle_scores |-> frame.rmsle_scores, ret |-> frame.ret,
     calls |-> Append(prev.calls,
                  [model |-> frame.model, n |-> frame.n,
                   held_out |-> [f \in 1..Len(frame.folds) |-> frame.folds[f].scored]])]

\* a slip: random_state left out, every split shuffles afresh (here: each
\* model after the first gets the order turned by one place)
ShuffledIndices_Unseeded(n, p, m) ==
    IF m = "lr" THEN p ELSE [i \in 1..n |-> p[(i % n) + 1]]

\* KFold(shuffle=True, random_state=42): every split starts a new generator
\* from the seed, so the n row indices come in the same order p in every call
ShuffledIndices(n, p, m) == p

Unfitted == [fitted |-> FALSE, rows |-> {}, features |-> <<>>]

\* cell 2: load the preprocessed files into a fresh kernel, split off the target
BL_Load ==
    /\ pc = "bl_load"
    /\ log' = log \o <<ReadEvent("baseline", TrainPrePath), ReadEvent("baseline", TestPrePath)>>
    /\ IF AllPresent({TrainPrePath, TestPrePath})
       THEN /\ mem' = [train |-> ReadCsv(fs[TrainPrePath]),
                       test |-> ReadCsv(fs[TestPrePath]),
                       y |-> Column(ReadCsv(fs[TrainPrePath]), "Calories"),
                       X |-> DropCol(ReadCsv(fs[TrainPrePath]), "Calories"),
                       scores |-> FreshKernel,
                       xgb |-> Unfitted]
            /\ pc' = "bl_lr"
            /\ UNCHANGED <<fs, perm, foldMsle, cv, rt>>
       ELSE Crash

\* a model cell: construct the model and score it with rmsle_cv; KFold.split
\* raises when there are fewer rows than splits
BL_Score(at, m, then) ==
    /\ pc = at
    /\ IF NRows(mem.X) < NSplits
       THEN Crash /\ UNCHANGED log
       ELSE LET n == NRows(mem.X)
                frame == RmsleCv(m, n, ShuffledIndices(n, perm, m), foldMsle)
            IN  /\ cv' = AfterCall(cv, frame)
                /\ mem' = [mem EXCEPT !.scores = Bind(@, m, frame.ret)]
                /\ pc' = then
                /\ UNCHANGED <<fs, log, perm, foldMsle, rt>>

BL_ScoreLr == BL_Score("bl_lr", "lr", "bl_rf")

BL_ScoreRf == BL_Score("bl_rf", "rf", "bl_xgb")

BL_ScoreXgb == BL_Score("bl_xgb", "xgb", "bl_lgb")

BL_ScoreLgb == BL_Score("bl_lgb", "lgb", "bl_fit")

\* the log-scale values a fitted model may predict
PredVals == {Log1pFix(t.Calories) : t \in Templates}

\* a slip: the model is fitted on a training split, the first row held out
FitAll_TrainSplit(m) == [fitted |-> TRUE, rows |-> 2..NRows(m.X), features |-> m.X.cols]

\* xgb.fit(X, y)
FitAll(m) == [fitted |-> TRUE, rows |-> 1..NRows(m.X), features |-> m.X.cols]

\* a slip: the predictions are written as predicted, on the log scale
InverseTransform_None(preds) == preds

\* np.expm1(test_preds_log)
InverseTransform(preds) == [i \in 1..Len(preds) |-> Expm1Fix(preds[i])]

\* xgb.predict(test): one value per test row, in row order, the value a
\* function of the row
Predictions(test) ==
    {q \in [1..NRows(test) -> PredVals] :
        \A i, j \in 1..NRows(test) : test.rows[i] = test.rows[j] => q[i] = q[j]}

\* fit XGBoost on all rows, predict the test set, undo the log transform;
\* predict raises when the test columns are not the fitted feature names
BL_FitPredict ==
    /\ pc = "bl_fit"
    /\ IF mem.test.cols # FitAll(mem).features
       THEN /\ mem' = [mem EXCEPT !.xgb = FitAll(mem)]
            /\ pc' = "crashed"
            /\ UNCHANGED <<fs, log, perm, foldMsle, cv, rt>>
       ELSE \E preds \in Predictions(mem.test) :
            /\ mem' = [train |-> mem.train, test |-> mem.test, y |-> mem.y, X |-> mem.X,
                       scores |-> mem.scores, xgb |-> FitAll(mem),
                       test_preds_log |-> preds,
                       test_preds |-> InverseTransform(preds)]
            /\ log' = Append(log, TransformEvent("baseline", "expm1"))
            /\ pc' = "bl_submit"
            /\ UNCHANGED <<fs, perm, foldMsle, cv, rt>>

\* pd.DataFrame({'id': test_ids, 'Calories': test_preds})
Submission(ids, preds) ==
    Frame(<<"id", "Calories">>,
          [i \in 1..Len(ids) |-> [c \in {"id", "Calories"} |->
                                    IF c = "id" THEN ids[i] ELSE preds[i]]])

\* read the test ids back and write the submission; the frame constructor
\* raises when the two columns differ in length
BL_Submit ==
    /\ pc = "bl_submit"
    /\ IF ~AllPresent({TestIdsPath})
       THEN Crash /\ log' = Append(log, ReadEvent("baseline", TestIdsPath))
       ELSE LET test_ids == Column(ReadCsv(fs[TestIdsPath]), "id")
            IN  IF Len(test_ids) # Len(mem.test_preds)
                THEN Crash /\ log' = Append(log, ReadEvent("baseline", TestIdsPath))
                ELSE /\ fs' = [fs EXCEPT ![SubmissionPath] =
                                  ToCsv(Submission(test_ids, mem.test_preds))]
                     /\ log' = log \o <<ReadEvent("baseline", TestIdsPath),
                                        WriteEvent("baseline", SubmissionPath)>>
                     /\ pc' = "done"
                     /\ UNCHANGED <<mem, perm, foldMsle, cv, rt>>

-----------------------------------------------------------------------------
(* The pipeline: the three notebooks run in order *)

ScoreVals == {0, 100}

\* one possible outcome of scoring, the same for every model
PipeMsle == [m \in Range(ModelNames) |-> [f \in 1..NSplits |-> IF f = 1 THEN 100 ELSE 0]]

Reverse(n) == [i \in 1..n |-> n + 1 - i]

NoRoundTrip == [pc |-> "idle", c |-> 0, logged |-> 0, back |-> 0]

Init ==
    /\ \E tr \in RawTrainSets, te \in RawTestSets :
          /\ fs = [p \in Paths |->
                     CASE p = RawTrainPath -> ToCsv(tr)
                       [] p = RawTestPath -> ToCsv(te)
                       [] OTHER -> Absent]
          /\ perm = Reverse(NRows(tr))
    /\ pc = "pp_load"
    /\ mem = FreshKernel
    /\ log = <<>>
    /\ foldMsle = PipeMsle
    /\ cv = NoCall
    /\ rt = NoRoundTrip

Pipeline ==
    \/ PP_Load \/ PP_DropId \/ PP_Dummies \/ PP_Log \/ PP_Save
    \/ FE_Load \/ FE_BMI \/ FE_Intensity \/ FE_TempHeart \/ FE_Duration2
    \/ FE_Save \/ FE_Verify
    \/ BL_Load \/ BL_ScoreLr \/ BL_ScoreRf \/ BL_ScoreXgb \/ BL_ScoreLgb
    \/ BL_FitPredict \/ BL_Submit

Next == Pipeline

Spec == Init /\ [][Next]_vars

-----------------------------------------------------------------------------
(* The pipeline on one data set, the shuffle and the scores varying *)

CVTemplate(i) ==
    CHOOSE t \in Templates : t.Sex = (IF i % 2 = 1 THEN "female" ELSE "male")

CVTrain(n) == Frame(RawTrainCols, [i \in 1..n |-> TrainRow(CVTemplate(i), i)])

CVTest == Frame(RawTestCols, [i \in 1..2 |-> TestRow(CVTemplate(i))])

\* the shuffle varies and the scores are fixed, or the other way round
CVInit ==
    /\ \E n \in NSplits..MaxCVRows :
          /\ fs = [p \in Paths |->
                     CASE p = RawTrainPath -> ToCsv(CVTrain(n))
                       [] p = RawTestPath -> ToCsv(CVTest)
                       [] OTHER -> Absent]
          /\ \/ perm \in Perms(n) /\ foldMsle = PipeMsle
             \/ /\ perm = Reverse(n)
                /\ \E v \in [1..NSplits -> ScoreVals] :
                      foldMsle = [m \in Range(ModelNames) |-> v]
    /\ pc = "pp_load"
    /\ mem = FreshKernel
    /\ log = <<>>
    /\ cv = NoCall
    /\ rt = NoRoundTrip

CVSpec == CVInit /\ [][Next]_vars

-----------------------------------------------------------------------------
(* The target transform and its inverse on one value *)

Idle == [p \in Paths |-> Absent]

RTInit ==
    /\ \E c \in 0..MaxCal : rt = [pc |-> "start", c |-> c, logged |-> 0, back |-> 0]
    /\ fs = Idle
    /\ pc = "idle"
    /\ mem = FreshKernel
    /\ log = <<>>
    /\ perm = <<>>
    /\ foldMsle = PipeMsle
    /\ cv = NoCall

\* preprocessing: np.log1p on the target value
RT_Log1p ==
    /\ rt.pc = "start"
    /\ rt' = [rt EXCEPT !.pc = "logged", !.logged = Log1pFix(rt.c)]
    /\ UNCHANGED <<fs, pc, mem, log, perm, foldMsle, cv>>

\* submission: np.expm1 on a log-scale value
RT_Expm1 ==
    /\ rt.pc = "logged"
    /\ rt' = [rt EXCEPT !.pc = "back", !.back = Expm1Fix(rt.logged)]
    /\ UNCHANGED <<fs, pc, mem, log, perm, foldMsle, cv>>

RTNext == RT_Log1p \/ RT_Expm1

RTSpec == RTInit /\ [][RTNext]_vars

-----------------------------------------------------------------------------
(* float64 arithmetic on values >= 0, as the blend computes with *)

\* A natural number of any size: its binary digits, the lowest first.
BitAt(a, i) == IF i <= Len(a) THEN a[i] ELSE 0

\* 2^k for small k
RECURSIVE Pow2(_)
Pow2(k) == IF k = 0 THEN 1 ELSE 2 * Pow2(k - 1)

\* the digits of a small n
NatBits(n) ==
    LET len == CHOOSE k \in 0..30 : Pow2(k) > n /\ (k = 0 \/ Pow2(k - 1) <= n)
    IN  [i \in 1..len |-> (n \div Pow2(i - 1)) % 2]

\* without zeros at the high end
Trim(a) ==
    LET ones == {i \in 1..Len(a) : a[i] = 1}
    IN  IF ones = {} THEN <<>>
        ELSE SubSeq(a, 1, CHOOSE i \in ones : \A j \in ones : j <= i)

\* adding a and b carries into place i
CarryInto(a, b, i) ==
    \E j \in 1..(i - 1) :
        /\ BitAt(a, j) = 1 /\ BitAt(b, j) = 1
        /\ \A k \in (j + 1)..(i - 1) : BitAt(a, k) + BitAt(b, k) >= 1

AddBits(a, b) ==
    Trim([i \in 1..((IF Len(a) >= Len(b) THEN Len(a) ELSE Len(b)) + 1) |->
            (BitAt(a, i) + BitAt(b, i) + (IF CarryInto(a, b, i) THEN 1 ELSE 0)) % 2])

\* a * 2^k
ShiftLeft(a, k) == IF a = <<>> THEN <<>> ELSE [i \in 1..k |-> 0] \o a

\* a * b, b of few digits
RECURSIVE MulBits(_, _)
MulBits(a, b) ==
    IF b = <<>> THEN <<>>
    ELSE AddBits(IF b[1] = 1 THEN a ELSE <<>>, ShiftLeft(MulBits(a, Tail(b)), 1))

\* a <= b
LeBits(a, b) ==
    \/ Trim(a) = Trim(b)
    \/ \E i \in 1..Len(b) :
          /\ BitAt(a, i) < BitAt(b, i)
          /\ \A j \in (i + 1)..(Len(a) + Len(b)) : BitAt(a, j) = BitAt(b, j)

\* 2^t modulo a small md
RECURSIVE PowMod(_, _)
PowMod(t, md) ==
    IF t = 0 THEN 1 % md
    ELSE IF t % 2 = 1 THEN (2 * PowMod(t - 1, md)) % md
    ELSE (PowMod(t \div 2, md) * PowMod(t \div 2, md)) % md

\* the digits of the whole part of n * 2^k / d, for small n and d
QuotientBits(n, k, d) ==
    Trim([j \in 1..(k + Len(NatBits(n))) |->
            IF j - 1 <= k
            THEN (IF (n * PowMod(k - (j - 1), 2 * d)) % (2 * d) >= d THEN 1 ELSE 0)
            ELSE (n \div (d * Pow2(j - 1 - k))) % 2])

\* n * 2^k is no multiple of d
LeavesRest(n, k, d) == (n * PowMod(k, d)) % d # 0

\* the significant binary digits of a float64
Precision == 53

\* A float64 value >= 0 is m * 2^e with m odd, at most Precision digits long;
\* zero is the empty m.
Canon(m, e) ==
    IF Trim(m) = <<>> THEN [m |-> <<>>, e |-> 0]
    ELSE LET low == CHOOSE i \in 1..Len(m) : m[i] = 1 /\ \A j \in 1..(i - 1) : m[j] = 0
         IN  [m |-> SubSeq(Trim(m), low, Len(Trim(m))), e |-> e + low - 1]

\* the float64 nearest to m * 2^e (plus a little, if more is set), ties to even
RoundToFloat(m, e, more) ==
    IF Len(m) <= Precision THEN Canon(m, e)
    ELSE LET s == Len(m) - Precision
             kept == SubSeq(m, s + 1, Len(m))
             below == more \/ \E i \in 1..(s - 1) : m[i] = 1
             up == m[s] = 1 /\ (below \/ kept[1] = 1)
         IN  Canon(IF up THEN AddBits(kept, <<1>>) ELSE kept, e + s)

\* an integer as a float64
FromInt(n) == RoundToFloat(NatBits(n), 0, FALSE)

\* the float64 a decimal literal n/d stands for (0.7 is 7/10)
FromRatio(n, d) ==
    RoundToFloat(QuotientBits(n, 2 * Precision, d), 0 - 2 * Precision,
                 LeavesRest(n, 2 * Precision, d))

\* x * y
FMul(x, y) == RoundToFloat(MulBits(x.m, y.m), x.e + y.e, FALSE)

\* the digits of x in units of 2^e, e <= x.e
Aligned(x, e) == ShiftLeft(x.m, x.e - e)

MinExp(x, y) == IF x.e <= y.e THEN x.e ELSE y.e

\* x + y
FAdd(x, y) ==
    RoundToFloat(AddBits(Aligned(x, MinExp(x, y)), Aligned(y, MinExp(x, y))), MinExp(x, y), FALSE)

\* x <= y
FLe(x, y) == LeBits(Aligned(x, MinExp(x, y)), Aligned(y, MinExp(x, y)))

-----------------------------------------------------------------------------
(* Blending: blended_xgb70_lgb30.ipynb *)

\* the literals 0.7 and 0.3 as tenths
W1N == 7
W2N == 3
WDen == 10

\* 0.7 and 0.3 as the float64 values the literals stand for
Weight1 == FromRatio(W1N, WDen)
Weight2 == FromRatio(W2N, WDen)

BlendIds == {1, 2}
BlendCals == {3, 10}

PredictionFiles ==
    { ToCsv(Frame(<<"id", "Calories">>, rows)) :
        rows \in SeqsUpTo([id : BlendIds, Calories : BlendCals], 0, MaxBlendRows) }

BlendInit ==
    /\ \E a \in PredictionFiles, b \in PredictionFiles :
          fs = [p \in Paths |-> CASE p = XgbFile -> a [] p = LgbFile -> b [] OTHER -> Absent]
    /\ pc = "bd_load"
    /\ mem = FreshKernel
    /\ log = <<>>
    /\ perm = <<>>
    /\ foldMsle = PipeMsle
    /\ cv = NoCall
    /\ rt = NoRoundTrip

\* xgb_df['id'] == lgb_df['id'] can be evaluated: the two have the same index
SameIndex(a, b) == NRows(a) = NRows(b)

\* a slip: .any() in place of .all()
IdsMatch_Any(a, b) == \E i \in 1..NRows(a) : a.rows[i]["id"] = b.rows[i]["id"]

\* (xgb_df['id'] == lgb_df['id']).all()
IdsMatch(a, b) == \A i \in 1..NRows(a) : a.rows[i]["id"] = b.rows[i]["id"]

\* a slip: both predictions weighted 0.7
BlendedPreds_SameWeight(a, b) ==
    [i \in 1..NRows(a) |->
        FAdd(FMul(Weight1, FromInt(a.rows[i]["Calories"])),
             FMul(Weight1, FromInt(b.rows[i]["Calories"])))]

\* a slip: the two weights exchanged
BlendedPreds_Swapped(a, b) ==
    [i \in 1..NRows(a) |->
        FAdd(FMul(Weight2, FromInt(a.rows[i]["Calories"])),
             FMul(Weight1, FromInt(b.rows[i]["Calories"])))]

\* 0.7 * xgb_df['Calories'] + 0.3 * lgb_df['Calories'], row labels aligned,
\* in float64: each product is rounded, then the sum
BlendedPreds(a, b) ==
    [i \in 1..NRows(a) |->
        FAdd(FMul(Weight1, FromInt(a.rows[i]["Calories"])),
             FMul(Weight2, FromInt(b.rows[i]["Calories"])))]

\* a slip: the ids written are the row labels
SubmissionBlended_RowLabels(a, preds) ==
    Submission([i \in 1..NRows(a) |-> i - 1], preds)

\* pd.DataFrame({'id': xgb_df['id'], 'Calories': blended_preds})
SubmissionBlended(a, preds) == Submission(Column(a, "id"), preds)

\* read the two prediction files
BD_Load ==
    /\ pc = "bd_load"
    /\ mem' = [xgb_df |-> ReadCsv(fs[XgbFile]), lgb_df |-> ReadCsv(fs[LgbFile]),
               error |-> "none"]
    /\ log' = log \o <<ReadEvent("blend", XgbFile), ReadEvent("blend", LgbFile)>>
    /\ pc' = "bd_assert"
    /\ UNCHANGED <<fs, perm, foldMsle, cv, rt>>

\* assert the ids match; comparing columns of different length raises
BD_Assert ==
    /\ pc = "bd_assert"
    /\ IF ~SameIndex(mem.xgb_df, mem.lgb_df)
       THEN /\ mem' = [mem EXCEPT !.error = "ValueError"]
            /\ pc' = "crashed"
       ELSE IF ~IdsMatch(mem.xgb_df, mem.lgb_df)
       THEN /\ mem' = [mem EXCEPT !.error = "AssertionError"]
            /\ pc' = "crashed"
       ELSE /\ mem' = mem
            /\ pc' = "bd_blend"
    /\ UNCHANGED <<fs, log, perm, foldMsle, cv, rt>>

\* the weighted blend and the submission frame
BD_Blend ==
    /\ pc = "bd_blend"
    /\ mem' = [xgb_df |-> mem.xgb_df, lgb_df |-> mem.lgb_df, error |-> mem.error,
               blended_preds |-> BlendedPreds(mem.xgb_df, mem.lgb_df),
               submission_blended |->
                   SubmissionBlended(mem.xgb_df, BlendedPreds(mem.xgb_df, mem.lgb_df))]
    /\ pc' = "bd_save"
    /\ UNCHANGED <<fs, log, perm, foldMsle, cv, rt>>

\* write the blended submission
BD_Save ==
    /\ pc = "bd_save"
    /\ fs' = [fs EXCEPT ![BlendOutPath] = ToCsv(mem.submission_blended)]
    /\ log' = Append(log, WriteEvent("blend", BlendOutPath))
    /\ pc' = "done"
    /\ UNCHANGED <<mem, perm, foldMsle, cv, rt>>

BlendNext == BD_Load \/ BD_Assert \/ BD_Blend \/ BD_Save

BlendSpec == BlendInit /\ [][BlendNext]_vars

-----------------------------------------------------------------------------
(* The scoring of one held-out fold inside rmsle_cv *)

\* np.log1p(v) for a fixed-point value v >= 0:  ln(1+x) = 2 atanh(x / (x+2))
Log1pScaled(v) ==
    LET z == RoundDiv(v * LScale, v + 2 * LScale)
    IN  2 * AtanhTerms(z, 0, MulFix(z, z))

\* (a - b) ** 2 on fixed-point values
SquaredDiff(a, b) == MulFix(Abs(a - b), Abs(a - b))

\* sklearn's mean_squared_log_error(y_true, y_pred), the metric behind
\* scoring='neg_mean_squared_log_error':
\* mean((log1p(y_true) - log1p(y_pred)) ** 2), for values >= 0
MeanSquaredLogError(y_true, y_pred) ==
    Mean([i \in 1..Len(y_true) |->
            SquaredDiff(Log1pScaled(y_true[i]), Log1pScaled(y_pred[i]))])

\* the raw calorie values of the rows of a held-out fold
HeldOutCals == {0, 3, 12}

\* the log-scale values a clone fitted on the logged target may predict
ClonePreds == {Log1pFix(c) : c \in HeldOutCals}

ScoreInit ==
    /\ \E cs \in SeqsUpTo(HeldOutCals, 1, MaxHeldOut) : mem = [Calories |-> cs]
    /\ pc = "sc_log"
    /\ fs = Idle
    /\ log = <<>>
    /\ perm = <<>>
    /\ foldMsle = PipeMsle
    /\ cv = NoCall
    /\ rt = NoRoundTrip

\* preprocessing: the target is log1p-transformed; the baseline takes it as y
SC_LogTarget ==
    /\ pc = "sc_log"
    /\ mem' = [Calories |-> mem.Calories,
               y |-> [i \in 1..Len(mem.Calories) |-> Log1pFix(mem.Calories[i])]]
    /\ log' = Append(log, TransformEvent("preprocessing", "log1p"))
    /\ pc' = "sc_predict"
    /\ UNCHANGED <<fs, perm, foldMsle, cv, rt>>

\* cross_val_score: the clone fitted on the other folds predicts the held-out rows
SC_Predict ==
    /\ pc = "sc_predict"
    /\ \E preds \in [1..Len(mem.y) -> ClonePreds] :
          mem' = [Calories |-> mem.Calories, y |-> mem.y, y_pred |-> preds]
    /\ pc' = "sc_score"
    /\ UNCHANGED <<fs, log, perm, foldMsle, cv, rt>>

\* cross_val_score: the scorer is given y and the predictions as they are and
\* takes log1p of both; the fold's score is the negated error
SC_Score ==
    /\ pc = "sc_score"
    /\ mem' = [Calories |-> mem.Calories, y |-> mem.y, y_pred |-> mem.y_pred,
               score |-> 0 - MeanSquaredLogError(mem.y, mem.y_pred)]
    /\ log' = log \o <<TransformEvent("baseline", "log1p(y_true)"),
                       TransformEvent("baseline", "log1p(y_pred)")>>
    /\ pc' = "sc_root"
    /\ UNCHANGED <<fs, perm, foldMsle, cv, rt>>

\* rmsle_cv: negate, average (one fold here), take the root
SC_Root ==
    /\ pc = "sc_root"
    /\ mem' = [Calories |-> mem.Calories, y |-> mem.y, y_pred |-> mem.y_pred,
               score |-> mem.score,
               rmsle_scores |-> Negate(<<mem.score>>),
               ret |-> Sqrt(Mean(Negate(<<mem.score>>)))]
    /\ pc' = "sc_done"
    /\ UNCHANGED <<fs, log, perm, foldMsle, cv, rt>>

ScoreNext == SC_LogTarget \/ SC_Predict \/ SC_Score \/ SC_Root

ScoreSpec == ScoreInit /\ [][ScoreNext]_vars

-----------------------------------------------------------------------------
(* The claims *)

\* C1: the submission written by the baseline stage has one record per row
\* of the raw test set, and its id column is the raw test id column, element
\* for element and in the same order.
C1_SubmissionIdsAreTestIds ==
    fs[SubmissionPath].present =>
        LET sub == fs[SubmissionPath]
            raw == ReadCsv(fs[RawTestPath])
        IN  /\ sub.header = <<"id", "Calories">>
            /\ Len(sub.lines) = NRows(raw)
            /\ \A i \in 1..NRows(raw) : sub.lines[i][1] = raw.rows[i]["id"]

\* a submission for three test rows whose ids are not in sorted order
C1_Witness ==
    /\ pc = "done"
    /\ fs[SubmissionPath].present
    /\ Column(ReadCsv(fs[SubmissionPath]), "id") = <<3, 7, 3>>

\* the naturals x and n differ by no more than n / 2^(Precision - 2): two
\* units in the last place of a float64
Close(x, n) ==
    /\ LeBits(ShiftLeft(x, Precision - 2), AddBits(ShiftLeft(n, Precision - 2), n))
    /\ LeBits(ShiftLeft(n, Precision - 2), AddBits(ShiftLeft(x, Precision - 2), n))

\* the digits of the float64 x, and of the integer n, in one unit fine enough
\* for both
InUnit(x) == Aligned(x, IF x.e <= 0 THEN x.e ELSE 0)

IntInUnit(n, x) == ShiftLeft(NatBits(n), IF x.e <= 0 THEN 0 - x.e ELSE 0)

\* the float64 x is t/10, to float64 precision
IsTenths(x, t) == Close(MulBits(InUnit(x), NatBits(WDen)), IntInUnit(t, x))

\* the float64 x is the integer n, to float64 precision
IsNearly(x, n) == Close(InUnit(x), IntInUnit(n, x))

\* C2: row i of the blended file is 0.7 times row i of the XGBoost file plus
\* 0.3 times row i of the LightGBM file (to float64 precision); the weights
\* are fixed, not negative and sum to one.
C2_BlendIsWeightedSum ==
    /\ W1N = 7 /\ W2N = 3 /\ WDen = 10
    /\ W1N >= 0 /\ W2N >= 0 /\ W1N + W2N = WDen
    /\ FAdd(Weight1, Weight2) = FromInt(1)
    /\ fs[BlendOutPath].present =>
          LET out == ReadCsv(fs[BlendOutPath])
              a == ReadCsv(fs[XgbFile])
              b == ReadCsv(fs[LgbFile])
          IN  /\ NRows(out) = NRows(a) /\ NRows(out) = NRows(b)
              /\ \A i \in 1..NRows(out) :
                    IsTenths(out.rows[i]["Calories"],
                             7 * a.rows[i]["Calories"] + 3 * b.rows[i]["Calories"])

\* a blend written for two rows on which the two models disagree, each row
\* in another direction: 5.1 and 7.9
C2_Witness ==
    /\ fs[BlendOutPath].present
    /\ Column(ReadCsv(fs[XgbFile]), "Calories") = <<3, 10>>
    /\ Column(ReadCsv(fs[LgbFile]), "Calories") = <<10, 3>>
    /\ IsTenths(ReadCsv(fs[BlendOutPath]).rows[1]["Calories"], 51)
    /\ IsTenths(ReadCsv(fs[BlendOutPath]).rows[2]["Calories"], 79)

\* the ids of the two prediction files differ at a row both files have
IdsDifferAtSomeRow(a, b) ==
    \E i \in 1..NRows(a) : i <= NRows(b) /\ a.rows[i]["id"] # b.rows[i]["id"]

BlendStopped == pc \in {"crashed", "done"}

\* C3 as stated: when the ids of the two prediction files differ at a row,
\* the blend stops with an assertion failure and writes no file; when they are
\* equal at every row the file is written.
C3_AssertionFailureOnAnyMismatch ==
    BlendStopped =>
        LET a == ReadCsv(fs[XgbFile])
            b == ReadCsv(fs[LgbFile])
        IN  IF IdsDifferAtSomeRow(a, b)
            THEN /\ pc = "crashed" /\ mem.error = "AssertionError"
                 /\ ~fs[BlendOutPath].present
            ELSE NRows(a) = NRows(b) => pc = "done" /\ fs[BlendOutPath].present

\* C3 amended: when the two files have as many rows and their ids differ at a
\* row, the blend stops with an assertion failure; when the two files differ
\* in their number of rows, it stops with the ValueError of the comparison;
\* either way before the blend is computed, no file is written and the
\* filesystem is as it was.  When the ids are equal at every row the
\* assertion passes and the file is written.
C3_StopsBeforeBlendOnMismatch ==
    LET a == ReadCsv(fs[XgbFile])
        b == ReadCsv(fs[LgbFile])
    IN  /\ pc = "crashed" =>
              /\ "blended_preds" \notin DOMAIN mem
              /\ \A p \in Paths \ {XgbFile, LgbFile} : ~fs[p].present
              /\ a = mem.xgb_df /\ b = mem.lgb_df
              /\ mem.error \in {"AssertionError", "ValueError"}
              /\ mem.error = "ValueError" <=> NRows(a) # NRows(b)
              /\ mem.error = "AssertionError" <=>
                    (NRows(a) = NRows(b) /\ IdsDifferAtSomeRow(a, b))
        /\ pc \in {"bd_blend", "bd_save", "done"} =>
              /\ NRows(a) = NRows(b)
              /\ ~IdsDifferAtSomeRow(a, b)
        /\ pc = "done" => fs[BlendOutPath].present

\* the assertion fails on two files that agree on the first id and differ on
\* the second
C3_Witness ==
    /\ pc = "crashed"
    /\ mem.error = "AssertionError"
    /\ Column(mem.xgb_df, "id") = <<1, 2>>
    /\ Column(mem.lgb_df, "id") = <<1, 1>>

FeatureCols(header) == SelectSeq(header, LAMBDA c : c # "Calories")

SameSchema(trainFile, testFile) ==
    /\ "Calories" \in Range(trainFile.header)
    /\ "Calories" \notin Range(testFile.header)
    /\ FeatureCols(trainFile.header) = testFile.header

\* C4: after preprocessing and after feature engineering the training set and
\* the test set have the same feature columns, in the same order, the training
\* set having the one extra column Calories, whatever Sex values occur in each.
C4_SameFeatureSchema ==
    /\ (fs[TrainPrePath].present /\ fs[TestPrePath].present)
          => SameSchema(fs[TrainPrePath], fs[TestPrePath])
    /\ (fs[TrainFePath].present /\ fs[TestFePath].present)
          => SameSchema(fs[TrainFePath], fs[TestFePath])

SexValues(raw) == {raw.rows[i]["Sex"] : i \in 1..NRows(raw)}

\* the columns of df that the raw file does not have
IndicatorCols(df) == {c \in Range(df.cols) : c \notin Range(RawTrainCols)}

Encoded == pc \in {"pp_log", "pp_save"}

IndicatorsFor(df, raw) ==
    /\ NRows(df) = NRows(raw)
    /\ ~HasCol(df, "Sex")
    /\ Cardinality(IndicatorCols(df)) = Cardinality(SexValues(raw)) - 1
    /\ Cardinality(IndicatorCols(df)) = 1 <=> Cardinality(SexValues(raw)) = 2
    /\ \A c \in IndicatorCols(df), i \in 1..NRows(df) : df.rows[i][c] \in {0, 1}
    /\ \A i \in 1..NRows(df) :
          Cardinality({c \in IndicatorCols(df) : df.rows[i][c] = 1}) <= 1

Called == cv.model # "none"

Scored(f) == cv.folds[f].scored

Fitted(f) == cv.folds[f].fit

\* C6: the five folds of rmsle_cv partition the rows: they are pairwise
\* disjoint, together they are every row, each row is held out in exactly one,
\* and per fold the model is fitted on exactly the rows of the other four
\* folds and scored on the held-out rows only.
C6_FoldsPartitionRows ==
    Called =>
        LET rows == 1..NRows(mem.X)
            F == 1..Len(cv.folds)
        IN  /\ Len(cv.folds) = 5
            /\ cv.n = NRows(mem.X)
            /\ \A f \in F : Scored(f) # {} /\ Scored(f) \subseteq rows
            /\ \A f, g \in F : f # g => Scored(f) \cap Scored(g) = {}
            /\ UNION {Scored(f) : f \in F} = rows
            /\ \A i \in rows : Cardinality({f \in F : i \in Scored(f)}) = 1
            /\ \A f \in F : /\ Fitted(f) = UNION {Scored(g) : g \in F \ {f}}
                             /\ Fitted(f) \cap Scored(f) = {}

\* six rows shuffled out of order: the first fold holds out rows 5 and 2
C6_Witness ==
    /\ Called
    /\ cv.n = 6
    /\ perm[1] = 5 /\ perm[2] = 2
    /\ Scored(1) = {2, 5}
    /\ Fitted(1) = {1, 3, 4, 6}

NearCalories(v, c) == Abs(v - c * LScale) * 200 <= (c + 1) * LScale

\* C8: expm1 undoes log1p: a calorie value c >= 0 taken through log1p and
\* then expm1 comes back as c, to the precision of the arithmetic.
C8_Expm1UndoesLog1p ==
    rt.pc = "back" => NearCalories(rt.back, rt.c)

\* twelve calories went through the log scale and came back
C8_Witness ==
    /\ rt.pc = "back"
    /\ rt.c = 12
    /\ rt.logged > LScale /\ rt.logged < 3 * LScale

Events(what) == SelectSeq(log, LAMBDA e : e.op = what)

Position(e) == CHOOSE k \in 1..Len(log) : log[k] = e

BaselineLoaded == pc \in {"bl_lr", "bl_rf", "bl_xgb", "bl_lgb", "bl_fit", "bl_submit", "done"}

StageOrder(stage) ==
    CASE stage = "preprocessing" -> 1
      [] stage = "feature_engineering" -> 2
      [] stage = "baseline" -> 3

Reads == {k \in 1..Len(log) : log[k].op = "read"}

\* the file read at k was written before, at the same path, by an earlier stage
WrittenByEarlierStage(k) ==
    \E j \in 1..(k - 1) :
        /\ log[j].op = "write" /\ log[j].path = log[k].path
        /\ StageOrder(log[j].stage) < StageOrder(log[k].stage)

\* the file read at k was written before, at the same path, by the same stage
WrittenBySameStage(k) ==
    \E j \in 1..(k - 1) :
        /\ log[j].op = "write" /\ log[j].path = log[k].path
        /\ log[j].stage = log[k].stage

\* a stage starts from the files alone: its kernel holds what it read
StagesStartFromFiles ==
    /\ pc = "fe_bmi" => mem = [train |-> ReadCsv(fs[TrainPrePath]),
                                test |-> ReadCsv(fs[TestPrePath])]
    /\ pc = "bl_lr" =>
          /\ DOMAIN mem = {"train", "test", "y", "X", "scores", "xgb"}
          /\ mem.train = ReadCsv(fs[TrainPrePath])
          /\ mem.test = ReadCsv(fs[TestPrePath])
    /\ fs[SubmissionPath].present =>
          Column(ReadCsv(fs[SubmissionPath]), "id") = Column(ReadCsv(fs[TestIdsPath]), "id")

\* C10 as stated: every file a stage reads is a raw input or a file an earlier
\* stage has finished writing at that path.
C10_ReadsOnlyEarlierStagesFiles ==
    \A k \in Reads : log[k].path \in RawInputs \/ WrittenByEarlierStage(k)

\* C10 amended: every file a stage reads is a raw input, or a file an earlier
\* stage has finished writing at that path, or, for the check that ends
\* feature engineering, one of the two files that stage has itself just
\* finished writing; no file is read before it is written, and a stage takes
\* nothing from another stage but what it reads from these files.
C10_ReadsOnlyWrittenFiles ==
    /\ \A k \in Reads :
          \/ log[k].path \in RawInputs
          \/ WrittenByEarlierStage(k)
          \/ /\ log[k].stage = "feature_engineering"
             /\ log[k].path \in {TrainFePath, TestFePath}
             /\ WrittenBySameStage(k)
    /\ StagesStartFromFiles

\* the three stages have run and the submission is written
C10_Witness ==
    /\ pc = "done"
    /\ fs[SubmissionPath].present
    /\ {log[k].stage : k \in Reads} = {"preprocessing", "feature_engineering", "baseline"}

\* the logarithms taken of the target between its raw value and the squared
\* difference
TargetLogs == SelectSeq(log, LAMBDA e : e.op \in {"log1p", "log1p(y_true)"})

\* the mean squared difference between log1p of the raw calorie values and the
\* predictions of that logged target
MsleOfCalories ==
    Mean([i \in 1..Len(mem.Calories) |->
            SquaredDiff(Log1pFix(mem.Calories[i]), mem.y_pred[i])])

\* C11: the score rmsle_cv reports is the RMSLE against the true calorie
\* values: on the way from the raw calorie value to the squared difference
\* the logarithm is taken once of the target, and the reported value is the
\* root of the mean squared difference between log1p(Calories) and the
\* prediction of it (to within 0.01 on the mean).
C11_ScoreIsRmsleOfCalories ==
    pc = "sc_done" =>
        /\ Len(TargetLogs) = 1
        /\ Abs(Mean(mem.rmsle_scores) - MsleOfCalories) * 100 <= LScale
        /\ mem.ret = Sqrt(Mean(mem.rmsle_scores))

CarriedCols == {"Age", "Height", "Weight", "Duration", "Heart_Rate", "Body_Temp"}

Preprocessed == fs[TrainPrePath].present /\ fs[TestPrePath].present /\ fs[TestIdsPath].present

\* pre is raw without id and Sex, the carried columns as they were, row by row
CarriedOver(pre, raw) ==
    /\ NRows(pre) = NRows(raw)
    /\ ~HasCol(pre, "id") /\ ~HasCol(pre, "Sex")
    /\ Range(pre.cols) \ IndicatorCols(pre) = (Range(raw.cols) \ {"id", "Sex"})
    /\ \A i \in 1..NRows(raw), c \in CarriedCols : pre.rows[i][c] = raw.rows[i][c]

\* the frame of preprocessing but for the indicator columns
FrameOfPreprocessing ==
    LET rawTrain == ReadCsv(fs[RawTrainPath])
        rawTest == ReadCsv(fs[RawTestPath])
        train == ReadCsv(fs[TrainPrePath])
        test == ReadCsv(fs[TestPrePath])
        ids == ReadCsv(fs[TestIdsPath])
    IN  /\ CarriedOver(train, rawTrain)
        /\ CarriedOver(test, rawTest)
        /\ \A i \in 1..NRows(rawTrain) :
              train.rows[i]["Calories"] = Log1pFix(rawTrain.rows[i]["Calories"])
        /\ ~HasCol(test, "Calories")
        /\ ids.cols = <<"id">>
        /\ NRows(ids) = NRows(test)
        /\ Column(ids, "id") = Column(rawTest, "id")

NewFeatures == <<"BMI", "Intensity", "TempHeart", "Duration2">>

FeaturesSaved == fs[TrainFePath].present /\ fs[TestFePath].present

\* fe is pre with the four new columns appended and nothing else changed
OnlyAdds(fe, pre) ==
    /\ fe.cols = pre.cols \o NewFeatures
    /\ NRows(fe) = NRows(pre)
    /\ \A i \in 1..NRows(pre), c \in Range(pre.cols) : fe.rows[i][c] = pre.rows[i][c]

\* the columns a row had before the features were added, the target aside
GivenCols(fe) == Range(fe.cols) \ (Range(NewFeatures) \cup {"Calories"})

\* rows, of one frame or of two, that agree on every column they were given
\* agree on the new ones
RowLocal(fe, other) ==
    \A i \in 1..NRows(fe), j \in 1..NRows(other) :
        (/\ GivenCols(fe) = GivenCols(other)
         /\ \A c \in GivenCols(fe) : fe.rows[i][c] = other.rows[j][c])
            => \A c \in Range(NewFeatures) : fe.rows[i][c] = other.rows[j][c]

\* C14: feature engineering appends exactly BMI, Intensity, TempHeart and
\* Duration2 to train and to test, leaves every other column value as it was
\* (the logged Calories too), keeps the number and order of rows, and derives
\* a row's new values from that row alone.
C14_OnlyAddsFourColumns ==
    FeaturesSaved =>
        LET trainPre == ReadCsv(fs[TrainPrePath])
            testPre == ReadCsv(fs[TestPrePath])
            trainFe == ReadCsv(fs[TrainFePath])
            testFe == ReadCsv(fs[TestFePath])
        IN  /\ OnlyAdds(trainFe, trainPre)
            /\ OnlyAdds(testFe, testPre)
            /\ Column(trainFe, "Calories") = Column(trainPre, "Calories")
            /\ RowLocal(trainFe, trainFe)
            /\ RowLocal(testFe, testFe)
            /\ RowLocal(trainFe, testFe)

\* a training set and a test set, both with female and male rows, have their
\* features added: twelve and eleven columns
C14_Witness ==
    /\ FeaturesSaved
    /\ Len(fs[TrainFePath].header) = 12
    /\ fs[TestFePath].header =
          <<"Age", "Height", "Weight", "Duration", "Heart_Rate", "Body_Temp", "Sex_male">>
              \o NewFeatures
    /\ Column(ReadCsv(fs[TestFePath]), "Duration2") = <<100, 0, 100>>
    /\ HasCol(ReadCsv(fs[TrainFePath]), "Sex_male")
    /\ Column(ReadCsv(fs[TrainFePath]), "Sex_male") = <<1, 0, 0, 0, 0>>

\* q is num / den to the nearest 1/FScale; with den = 0 it is what float
\* division gives, inf or nan
IsQuotient(q, num, den) ==
    IF den = 0 THEN q \in {InfVal, NaNVal}
    ELSE 2 * Abs(q * den - num * FScale) <= den

\* the new columns of every row of fe are the declared formulas of that row
FormulasHold(fe) ==
    \A i \in 1..NRows(fe) :
        LET r == fe.rows[i]
        IN  /\ IsQuotient(r["BMI"], r["Weight"] * 10000, r["Height"] * r["Height"])
            /\ IsQuotient(r["Intensity"], r["Heart_Rate"], r["Duration"])
            /\ r["TempHeart"] = r["Body_Temp"] * r["Heart_Rate"]
            /\ r["Duration2"] = r["Duration"] * r["Duration"]

\* C15: in every row of train and of test, BMI = Weight / (Height/100)^2,
\* Intensity = Heart_Rate / Duration, TempHeart = Body_Temp * Heart_Rate and
\* Duration2 = Duration^2, the same formulas for both data sets.
C15_FeaturesAreTheirFormulas ==
    FeaturesSaved =>
        /\ FormulasHold(ReadCsv(fs[TrainFePath]))
        /\ FormulasHold(ReadCsv(fs[TestFePath]))

\* a 60 kg, 160 cm, 10 minute, 100 bpm row in train and in test:
\* BMI 23.44 and intensity 10.00
C15_Witness ==
    /\ FeaturesSaved
    /\ ReadCsv(fs[TrainFePath]).rows[1]["BMI"] = 2344
    /\ ReadCsv(fs[TrainFePath]).rows[1]["Intensity"] = 1000
    /\ ReadCsv(fs[TestFePath]).rows[1]["BMI"] = 2344
    /\ ReadCsv(fs[TestFePath]).rows[1]["TempHeart"] = 4000
    /\ ReadCsv(fs[TestFePath]).rows[1]["Duration2"] = 100

\* every cell of df holds a defined value, every number a finite one
Complete(df) ==
    \A i \in 1..NRows(df), c \in Range(df.cols) \ {"Sex"} :
        df.rows[i][c] \notin {InfVal, NaNVal}

\* C16: the raw inputs having no missing value, every column of train_fe.csv
\* and test_fe.csv, the quotients BMI and Intensity too, holds a defined,
\* finite value in every row, rows with Duration 0 or Height 0 included.
C16_FeaturesComplete ==
    (FeaturesSaved /\ Complete(ReadCsv(fs[RawTrainPath])) /\ Complete(ReadCsv(fs[RawTestPath])))
        => /\ Complete(ReadCsv(fs[TrainFePath]))
           /\ Complete(ReadCsv(fs[TestFePath]))

\* the one indicator column of pre is Sex_male: 1 in the rows whose raw Sex
\* is male, 0 in those whose raw Sex is female, and there is no other raw value
IsSexMale(pre, raw) ==
    /\ IndicatorCols(pre) = {"Sex_male"}
    /\ \A i \in 1..NRows(raw) :
          /\ pre.rows[i]["Sex_male"] = 1 <=> raw.rows[i]["Sex"] = "male"
          /\ pre.rows[i]["Sex_male"] = 0 <=> raw.rows[i]["Sex"] = "female"

\* C17: the indicator column made for Sex is Sex_male, 1 exactly in the male
\* rows and 0 exactly in the female rows; the dropped category is female in
\* train and in test alike.
C17_IndicatorIsSexMale ==
    Preprocessed =>
        /\ IsSexMale(ReadCsv(fs[TrainPrePath]), ReadCsv(fs[RawTrainPath]))
        /\ IsSexMale(ReadCsv(fs[TestPrePath]), ReadCsv(fs[RawTestPath]))

BeforeFit == pc \in {"bl_lr", "bl_rf", "bl_xgb", "bl_lgb", "bl_fit"}

Predicted == "test_preds_log" \in DOMAIN mem

\* C18: the model behind the submitted predictions is fitted on all training
\* rows, not on the rows of a fold; it is fitted after the four models are
\* scored and before predict; scoring leaves it unfitted; and predict gives
\* one value per test row, in test order.
C18_FinalFitOnAllRows ==
    /\ BeforeFit => mem.xgb = Unfitted
    /\ (pc \in {"bl_lgb", "bl_fit"} /\ BeforeFit) =>
          \E k \in 1..Len(cv.calls) : cv.calls[k].model = "xgb"
    /\ Predicted =>
          /\ mem.xgb.fitted
          /\ mem.xgb.rows = 1..NRows(ReadCsv(fs[TrainPrePath]))
          /\ \A f \in 1..NSplits : mem.xgb.rows # Fitted(f)
          /\ Len(cv.calls) = Len(ModelNames)
          /\ Len(mem.test_preds_log) = NRows(ReadCsv(fs[RawTestPath]))
          /\ Len(mem.test_preds) = Len(mem.test_preds_log)
          /\ \A i, j \in 1..NRows(mem.test) :
                mem.test.rows[i] = mem.test.rows[j]
                    => mem.test_preds_log[i] = mem.test_preds_log[j]
    /\ fs[SubmissionPath].present => Predicted

\* five training rows, three test rows (the first and the last alike): the
\* model is fitted on the five and predicts three values
C18_Witness ==
    /\ pc = "bl_submit"
    /\ mem.xgb.rows = 1..5
    /\ Column(mem.test, "Duration") = <<10, 0, 10>>
    /\ mem.test_preds_log = <<Log1pFix(12), Log1pFix(3), Log1pFix(12)>>
    /\ Fitted(1) = {1, 2, 3, 4}

BlendWritten == fs[BlendOutPath].present

\* C19: the blended submission has one record per record of the input files,
\* and its ids are those of the XGBoost file, and so of the LightGBM file, in
\* the same order: no row is dropped, doubled or moved.
C19_BlendKeepsIdsAndRows ==
    BlendWritten =>
        LET out == ReadCsv(fs[BlendOutPath])
            a == ReadCsv(fs[XgbFile])
            b == ReadCsv(fs[LgbFile])
        IN  /\ out.cols = <<"id", "Calories">>
            /\ NRows(out) = NRows(a) /\ NRows(out) = NRows(b)
            /\ Column(out, "id") = Column(a, "id")
            /\ Column(out, "id") = Column(b, "id")

\* two input files of two rows, ids 2 then 1, are blended
C19_Witness ==
    /\ BlendWritten
    /\ Column(ReadCsv(fs[XgbFile]), "id") = <<2, 1>>
    /\ Column(ReadCsv(fs[LgbFile]), "Calories") = <<10, 3>>
    /\ Column(ReadCsv(fs[BlendOutPath]), "id") = <<2, 1>>

Smaller(x, y) == IF x <= y THEN x ELSE y

Larger(x, y) == IF x <= y THEN y ELSE x

\* C20 as stated: in every row the blended value lies between the two input
\* predictions, the ends included; so two identical files blend into those
\* same predictions.
C20_BlendWithinInputs ==
    BlendWritten =>
        LET out == ReadCsv(fs[BlendOutPath])
            a == ReadCsv(fs[XgbFile])
            b == ReadCsv(fs[LgbFile])
        IN  /\ \A i \in 1..NRows(out) :
                  /\ FLe(FromInt(Smaller(a.rows[i]["Calories"], b.rows[i]["Calories"])),
                         out.rows[i]["Calories"])
                  /\ FLe(out.rows[i]["Calories"],
                         FromInt(Larger(a.rows[i]["Calories"], b.rows[i]["Calories"])))
            /\ a = b => \A i \in 1..NRows(out) :
                            out.rows[i]["Calories"] = FromInt(a.rows[i]["Calories"])

\* C20 amended: in every row the blended value lies between the two input
\* predictions to float64 precision: it is not below the smaller nor above
\* the larger by more than two units in the last place; so two identical
\* files blend into those same predictions to that precision, not always
\* exactly.
C20_BlendWithinInputsToPrecision ==
    BlendWritten =>
        LET out == ReadCsv(fs[BlendOutPath])
            a == ReadCsv(fs[XgbFile])
            b == ReadCsv(fs[LgbFile])
        IN  /\ \A i \in 1..NRows(out) :
                  LET lo == Smaller(a.rows[i]["Calories"], b.rows[i]["Calories"])
                      hi == Larger(a.rows[i]["Calories"], b.rows[i]["Calories"])
                      v == out.rows[i]["Calories"]
                  IN  /\ FLe(FromInt(lo), v) \/ IsNearly(v, lo)
                      /\ FLe(v, FromInt(hi)) \/ IsNearly(v, hi)
            /\ a = b => \A i \in 1..NRows(out) :
                            IsNearly(out.rows[i]["Calories"], a.rows[i]["Calories"])

\* two files that both predict 3 are blended into 2.9999999999999996
C20_Witness ==
    /\ BlendWritten
    /\ Column(ReadCsv(fs[XgbFile]), "Calories") = <<3>>
    /\ Column(ReadCsv(fs[LgbFile]), "Calories") = <<3>>
    /\ ReadCsv(fs[BlendOutPath]).rows[1]["Calories"] # FromInt(3)
    /\ FLe(ReadCsv(fs[BlendOutPath]).rows[1]["Calories"], FromInt(3))
    /\ IsNearly(ReadCsv(fs[BlendOutPath]).rows[1]["Calories"], 3)

====
